---- MODULE Spec2Model ----
(***************************************************************************)
(* Release resolution of go-github-selfupdate (selfupdate/detect.go):      *)
(* Updater.DetectVersion, findReleaseAndAsset, findAssetFromRelease and    *)
(* findValidationAsset, with the parts of regexp, strings and blang/semver *)
(* v3.5.1 that they call.  Go strings are TLA+ strings, read with Len,     *)
(* SubSeq and \o.  Go pointers are indices: a release pointer is an index  *)
(* into the fetched list (0 is nil), an asset pointer a pair of a release  *)
(* index and an index into that release's asset list (<<0, 0>> is nil).    *)
(***************************************************************************)
EXTENDS Integers, Sequences, FiniteSets, TLC

VARIABLES
    goos,           \* runtime.GOOS of the running build
    repo,           \* the releases the hosting service holds, listing order
    targetVersion,  \* DetectVersion's version argument ("" for DetectLatest)
    filters,        \* up.filters
    validator,      \* up.validator: NoValidator or the string Suffix() returns
    pc,             \* position inside DetectVersion
    rels,           \* the list ListReleases returned
    idx,            \* number of releases the loop of findReleaseAndAsset has taken
    cur,            \* a, v, err of the latest findAssetFromRelease call
    ver,            \* findReleaseAndAsset's ver
    asset,          \* findReleaseAndAsset's asset
    release,        \* findReleaseAndAsset's release
    result,         \* what DetectVersion returned
    prefix,         \* version parser run: text in front of the version
    bare,           \* version parser run: the version text
    parsed          \* version parser run: outcome for prefix \o bare

vars == <<goos, repo, targetVersion, filters, validator, pc, rels, idx, cur,
          ver, asset, release, result, prefix, bare, parsed>>

detectVars == <<goos, repo, targetVersion, filters, validator, rels, idx, cur,
                ver, asset, release, result>>

parseVars == <<prefix, bare, parsed>>

(***************************************************************************)
(* Bounds of the model.                                                    *)
(***************************************************************************)
MaxRels == 3

MaxPrefixLen == 2

(***************************************************************************)
(* Strings.                                                                *)
(***************************************************************************)
Char(s, i) == SubSeq(s, i, i)

Min(S) == CHOOSE x \in S : \A y \in S : x <= y

numbers == {"0", "1", "2", "3", "4", "5", "6", "7", "8", "9"}

AsciiOrder == "+-.0123456789ABCDEFGHIJKLMNOPQRSTUVWXYZ_abcdefghijklmnopqrstuvwxyz"

alphas == {Char(AsciiOrder, i) : i \in 1..Len(AsciiOrder)} \ ({"+", ".", "_"} \cup numbers)

alphanum == alphas \cup numbers

Rank(c) == CHOOSE i \in 1..Len(AsciiOrder) : Char(AsciiOrder, i) = c

\* strings.HasSuffix
HasSuffix(s, suffix) ==
    /\ Len(suffix) <= Len(s)
    /\ SubSeq(s, Len(s) - Len(suffix) + 1, Len(s)) = suffix

\* strings.HasPrefix
HasPrefix(s, p) == Len(p) <= Len(s) /\ SubSeq(s, 1, Len(p)) = p

\* strings.Contains
Contains(s, sub) ==
    \E i \in 1..(Len(s) + 1) :
        i + Len(sub) - 1 <= Len(s) /\ SubSeq(s, i, i + Len(sub) - 1) = sub

\* strings.IndexRune, 1-based; 0 when c does not occur
IndexRune(s, c) ==
    LET at == {i \in 1..Len(s) : Char(s, i) = c}
    IN  IF at = {} THEN 0 ELSE Min(at)

RECURSIVE Split(_, _)
\* strings.Split with a separator of one character
Split(s, c) ==
    LET i == IndexRune(s, c)
    IN  IF i = 0 THEN <<s>>
        ELSE <<SubSeq(s, 1, i - 1)>> \o Split(SubSeq(s, i + 1, Len(s)), c)

\* strings.SplitN(s, c, 3)
SplitN3(s, c) ==
    LET i == IndexRune(s, c)
        rest == SubSeq(s, i + 1, Len(s))
        j == IndexRune(rest, c)
    IN  IF i = 0 THEN <<s>>
        ELSE IF j = 0 THEN <<SubSeq(s, 1, i - 1), rest>>
        ELSE <<SubSeq(s, 1, i - 1), SubSeq(rest, 1, j - 1),
               SubSeq(rest, j + 1, Len(rest))>>

RECURSIVE StrCompare(_, _)
\* Go's comparison of two strings, byte by byte: -1, 0 or 1
StrCompare(a, b) ==
    IF Len(a) = 0 /\ Len(b) = 0 THEN 0
    ELSE IF Len(a) = 0 THEN -1
    ELSE IF Len(b) = 0 THEN 1
    ELSE IF Rank(Char(a, 1)) < Rank(Char(b, 1)) THEN -1
    ELSE IF Rank(Char(a, 1)) > Rank(Char(b, 1)) THEN 1
    ELSE StrCompare(SubSeq(a, 2, Len(a)), SubSeq(b, 2, Len(b)))

(***************************************************************************)
(* reVersion = regexp.MustCompile(`\d+\.\d+\.\d+`)                         *)
(***************************************************************************)
IsDigitAt(s, i) == i >= 1 /\ i <= Len(s) /\ Char(s, i) \in numbers

\* first position at or after i that holds no digit
DigitRunEnd(s, i) ==
    LET stop == {j \in i..Len(s) : Char(s, j) \notin numbers}
    IN  IF stop = {} THEN Len(s) + 1 ELSE Min(stop)

\* reVersion matches s starting at position i (1-based)
reVersionMatchAt(s, i) ==
    LET e1 == DigitRunEnd(s, i)
        e2 == DigitRunEnd(s, e1 + 1)
    IN  /\ IsDigitAt(s, i)
        /\ e1 <= Len(s) /\ Char(s, e1) = "."
        /\ IsDigitAt(s, e1 + 1)
        /\ e2 <= Len(s) /\ Char(s, e2) = "."
        /\ IsDigitAt(s, e2 + 1)

\* reVersion.FindStringIndex(s)[0], 0-based; -1 stands for the nil result
FindStringIndex(s) ==
    LET at == {i \in 1..Len(s) : reVersionMatchAt(s, i)}
    IN  IF at = {} THEN -1 ELSE Min(at) - 1

(***************************************************************************)
(* github.com/blang/semver v3.5.1: Version, Make (= Parse), Compare, GTE.  *)
(***************************************************************************)
ZeroVersion == [Major |-> 0, Minor |-> 0, Patch |-> 0, Pre |-> <<>>, Build |-> <<>>]

containsOnly(s, set) == \A i \in 1..Len(s) : Char(s, i) \in set

hasLeadingZeroes(s) == Len(s) > 1 /\ Char(s, 1) = "0"

DigitVal(c) == CHOOSE d \in 0..9 : Char("0123456789", d + 1) = c

RECURSIVE ParseUintVal(_)
ParseUintVal(s) ==
    IF Len(s) = 0 THEN 0
    ELSE 10 * ParseUintVal(SubSeq(s, 1, Len(s) - 1)) + DigitVal(Char(s, Len(s)))

\* a major, minor or patch number: digits only, no leading zero, not empty
NumberOk(s) == Len(s) > 0 /\ containsOnly(s, numbers) /\ ~hasLeadingZeroes(s)

\* semver.NewPRVersion
NewPRVersion(s) ==
    IF Len(s) = 0 THEN [ok |-> FALSE, IsNum |-> FALSE, VersionNum |-> 0, VersionStr |-> ""]
    ELSE IF containsOnly(s, numbers)
    THEN [ok |-> ~hasLeadingZeroes(s), IsNum |-> TRUE,
          VersionNum |-> ParseUintVal(s), VersionStr |-> ""]
    ELSE [ok |-> containsOnly(s, alphanum), IsNum |-> FALSE,
          VersionNum |-> 0, VersionStr |-> s]

PRValue(p) == [IsNum |-> p.IsNum, VersionNum |-> p.VersionNum, VersionStr |-> p.VersionStr]

\* semver.Make: the parsed version, or an error
Make(s) ==
    LET parts == SplitN3(s, ".")
        failed == [ok |-> FALSE, ver |-> ZeroVersion]
    IN  IF Len(s) = 0 \/ Len(parts) # 3 THEN failed
        ELSE IF ~NumberOk(parts[1]) \/ ~NumberOk(parts[2]) THEN failed
        ELSE
          LET buildIndex == IndexRune(parts[3], "+")
              build == IF buildIndex # 0
                       THEN Split(SubSeq(parts[3], buildIndex + 1, Len(parts[3])), ".")
                       ELSE <<>>
              patchStr1 == IF buildIndex # 0 THEN SubSeq(parts[3], 1, buildIndex - 1)
                           ELSE parts[3]
              preIndex == IndexRune(patchStr1, "-")
              prerelease == IF preIndex # 0
                            THEN Split(SubSeq(patchStr1, preIndex + 1, Len(patchStr1)), ".")
                            ELSE <<>>
              patchStr == IF preIndex # 0 THEN SubSeq(patchStr1, 1, preIndex - 1)
                          ELSE patchStr1
              pre == [i \in 1..Len(prerelease) |-> NewPRVersion(prerelease[i])]
          IN  IF ~NumberOk(patchStr) THEN failed
              ELSE IF \E i \in 1..Len(pre) : ~pre[i].ok THEN failed
              ELSE IF \E i \in 1..Len(build) :
                        Len(build[i]) = 0 \/ ~containsOnly(build[i], alphanum)
                   THEN failed
              ELSE [ok |-> TRUE,
                    ver |-> [Major |-> ParseUintVal(parts[1]),
                             Minor |-> ParseUintVal(parts[2]),
                             Patch |-> ParseUintVal(patchStr),
                             Pre |-> [i \in 1..Len(pre) |-> PRValue(pre[i])],
                             Build |-> build]]

\* PRVersion.Compare
PRCompare(v, o) ==
    IF v.IsNum /\ ~o.IsNum THEN -1
    ELSE IF ~v.IsNum /\ o.IsNum THEN 1
    ELSE IF v.IsNum /\ o.IsNum
    THEN (IF v.VersionNum = o.VersionNum THEN 0
          ELSE IF v.VersionNum > o.VersionNum THEN 1 ELSE -1)
    ELSE StrCompare(v.VersionStr, o.VersionStr)

\* Version.Compare
Compare(v, o) ==
    IF v.Major # o.Major THEN (IF v.Major > o.Major THEN 1 ELSE -1)
    ELSE IF v.Minor # o.Minor THEN (IF v.Minor > o.Minor THEN 1 ELSE -1)
    ELSE IF v.Patch # o.Patch THEN (IF v.Patch > o.Patch THEN 1 ELSE -1)
    ELSE IF Len(v.Pre) = 0 /\ Len(o.Pre) = 0 THEN 0
    ELSE IF Len(v.Pre) = 0 THEN 1
    ELSE IF Len(o.Pre) = 0 THEN -1
    ELSE
      LET n == IF Len(v.Pre) < Len(o.Pre) THEN Len(v.Pre) ELSE Len(o.Pre)
          diff == {i \in 1..n : PRCompare(v.Pre[i], o.Pre[i]) # 0}
      IN  IF diff # {} THEN PRCompare(v.Pre[Min(diff)], o.Pre[Min(diff)])
          ELSE IF Len(v.Pre) = Len(o.Pre) THEN 0
          ELSE IF Len(v.Pre) < Len(o.Pre) THEN -1 ELSE 1

\* Version.GTE
GTE(v, o) == Compare(v, o) >= 0

(***************************************************************************)
(* findAssetFromRelease, lines 30-45: the version parsed from a tag name.  *)
(***************************************************************************)
\* the same without lines 35-38: the text in front of the match is kept
VersionParserKeepsPrefix(tagName) ==
    IF FindStringIndex(tagName) = -1
    THEN [ok |-> FALSE, ver |-> ZeroVersion]
    ELSE Make(tagName)

VersionParser(tagName) ==
    LET first == FindStringIndex(tagName)
        verText == IF first > 0 THEN SubSeq(tagName, first + 1, Len(tagName))
                   ELSE tagName
    IN  IF first = -1
        THEN [ok |-> FALSE, ver |-> ZeroVersion]
        ELSE Make(verText)

(***************************************************************************)
(* Values of the hosting service (go-github) and of the Updater.           *)
(***************************************************************************)
GOARCH == "amd64"

NilAsset == <<0, 0>>

NoValidator == <<>>

RawAsset(id, name) ==
    [ID |-> id, Name |-> name, Size |-> 1000 + id,
     BrowserDownloadURL |-> "https://host/download/" \o name]

RawRelease(tag, draft, prerelease, assets) ==
    [TagName |-> tag, Draft |-> draft, Prerelease |-> prerelease,
     Name |-> "Release " \o tag, HTMLURL |-> "https://host/releases/" \o tag,
     Assets |-> assets]

\* a regular expression of the shape ^lit$, ^lit, lit$ or lit, lit a literal
Filter(anchorStart, lit, anchorEnd) ==
    [anchorStart |-> anchorStart, lit |-> lit, anchorEnd |-> anchorEnd]

\* regexp.Regexp.MatchString for such an expression
MatchString(filter, name) ==
    IF filter.anchorStart /\ filter.anchorEnd THEN name = filter.lit
    ELSE IF filter.anchorStart THEN HasPrefix(name, filter.lit)
    ELSE IF filter.anchorEnd THEN HasSuffix(name, filter.lit)
    ELSE Contains(name, filter.lit)

(***************************************************************************)
(* findReleaseAndAsset, lines 91-101: the candidate suffixes, in the order *)
(* they are generated.                                                     *)
(***************************************************************************)
Separators == <<"_", "-">>

Extensions == <<".zip", ".tar.gz", ".tgz", ".gzip", ".gz", ".tar.xz", ".xz", "">>

SuffixesOf(os, sep, ext) ==
    IF os = "windows"
    THEN <<os \o sep \o GOARCH \o ext, os \o sep \o GOARCH \o ".exe" \o ext>>
    ELSE <<os \o sep \o GOARCH \o ext>>

RECURSIVE SuffixesFrom(_, _, _)
SuffixesFrom(os, s, e) ==
    IF s > Len(Separators) THEN <<>>
    ELSE IF e > Len(Extensions) THEN SuffixesFrom(os, s + 1, 1)
    ELSE SuffixesOf(os, Separators[s], Extensions[e]) \o SuffixesFrom(os, s, e + 1)

Suffixes(os) == SuffixesFrom(os, 1, 1)

(***************************************************************************)
(* findAssetFromRelease                                                    *)
(***************************************************************************)
\* lines 18-28 without the check of line 26
RejectReasonForgetsPrerelease(rel, target) ==
    IF target # "" /\ target # rel.TagName THEN "does not match the target version"
    ELSE IF target = "" /\ rel.Draft THEN "is a draft"
    ELSE "nil"

\* lines 18-28: why the release is not looked at, or "nil"
RejectReason(rel, target) ==
    IF target # "" /\ target # rel.TagName THEN "does not match the target version"
    ELSE IF target = "" /\ rel.Draft THEN "is a draft"
    ELSE IF target = "" /\ rel.Prerelease THEN "is a pre-release"
    ELSE "nil"

\* lines 49-63 with the test of line 60 left out
FilterMatchedIgnored(name, flt) == TRUE

\* lines 49-63: the asset is not skipped by the filters
FilterMatched(name, flt) ==
    Len(flt) > 0 => \E k \in 1..Len(flt) : MatchString(flt[k], name)

\* lines 65-70: the name ends with a candidate suffix
SuffixMatched(name, suffixes) ==
    \E k \in 1..Len(suffixes) : HasSuffix(name, suffixes[k])

RECURSIVE AssetLoopLast(_, _, _, _)
\* lines 47-71 without the return of line 68: a later asset replaces an earlier one
AssetLoopLast(assets, suffixes, flt, i) ==
    IF i > Len(assets) THEN 0
    ELSE LET later == AssetLoopLast(assets, suffixes, flt, i + 1)
         IN  IF later # 0 THEN later
             ELSE IF FilterMatched(assets[i].Name, flt)
                     /\ SuffixMatched(assets[i].Name, suffixes)
             THEN i ELSE 0

RECURSIVE AssetLoop(_, _, _, _)
\* lines 47-71: the loop over rel.Assets from asset i on; 0 when it falls through
AssetLoop(assets, suffixes, flt, i) ==
    IF i > Len(assets) THEN 0
    ELSE IF ~FilterMatched(assets[i].Name, flt)
    THEN AssetLoop(assets, suffixes, flt, i + 1)
    ELSE IF SuffixMatched(assets[i].Name, suffixes) THEN i
    ELSE AssetLoop(assets, suffixes, flt, i + 1)

\* lines 15-75: a is an index into rel.Assets, 0 for nil
findAssetFromRelease(rel, suffixes, target, flt) ==
    LET reject == RejectReason(rel, target)
        parse == VersionParser(rel.TagName)
        a == AssetLoop(rel.Assets, suffixes, flt, 1)
        failure(why) == [a |-> 0, v |-> ZeroVersion, err |-> why]
    IN  IF reject # "nil" THEN failure(reject)
        ELSE IF ~parse.ok THEN failure("does not adopt semantic versioning")
        ELSE IF a = 0 THEN failure("no suitable asset was found")
        ELSE [a |-> a, v |-> parse.ver, err |-> "nil"]

RECURSIVE findValidationAssetLast(_, _, _)
\* lines 77-84 without the return in the loop: the last asset of that name
findValidationAssetLast(assets, validationName, i) ==
    IF i > Len(assets) THEN 0
    ELSE LET later == findValidationAssetLast(assets, validationName, i + 1)
         IN  IF later # 0 THEN later
             ELSE IF assets[i].Name = validationName THEN i ELSE 0

RECURSIVE findValidationAsset(_, _, _)
\* lines 77-84: the loop from asset i on; 0 stands for (nil, false)
findValidationAsset(assets, validationName, i) ==
    IF i > Len(assets) THEN 0
    ELSE IF assets[i].Name = validationName THEN i
    ELSE findValidationAsset(assets, validationName, i + 1)

(***************************************************************************)
(* findReleaseAndAsset                                                     *)
(***************************************************************************)
\* line 119 with GT in the place of GTE
ReplacesStrictly(rel, v, best) == rel = 0 \/ Compare(v, best) > 0

\* line 119: the release just examined becomes the selected one
Replaces(rel, v, best) == rel = 0 \/ GTE(v, best)

\* line 126 never true
NoReleaseFoundNever(rel) == FALSE

\* line 126
NoReleaseFound(rel) == rel = 0

(***************************************************************************)
(* go-github's getters return the zero value on a nil receiver.            *)
(***************************************************************************)
AssetAt(list, a) == list[a[1]].Assets[a[2]]

GetBrowserDownloadURL(list, a) ==
    IF a = NilAsset THEN "" ELSE AssetAt(list, a).BrowserDownloadURL

GetSize(list, a) == IF a = NilAsset THEN 0 ELSE AssetAt(list, a).Size

GetID(list, a) == IF a = NilAsset THEN 0 ELSE AssetAt(list, a).ID

GetAssetName(list, a) == IF a = NilAsset THEN "" ELSE AssetAt(list, a).Name

GetHTMLURL(list, r) == IF r = 0 THEN "" ELSE list[r].HTMLURL

GetName(list, r) == IF r = 0 THEN "" ELSE list[r].Name

(***************************************************************************)
(* The inputs of the model: what the service may hold and how the Updater  *)
(* may be configured.                                                      *)
(***************************************************************************)
PlainAssets ==
    <<RawAsset(1, "tool_linux_amd64.tar.gz"),
      RawAsset(2, "tool_linux_amd64.tar.gz.sha256"),
      RawAsset(3, "tool_linux_amd64.tar.gz.sha256")>>

MultiAssets ==
    <<RawAsset(4, "tool-extra_linux_amd64"),
      RawAsset(5, "tool-core_linux_amd64"),
      RawAsset(6, "tool-core_linux_amd64.sha256")>>

ForeignAssets == <<RawAsset(7, "tool_darwin_arm64")>>

MixedAssets ==
    <<RawAsset(8, "tool_windows_amd64.exe.zip"),
      RawAsset(7, "tool_darwin_arm64"),
      RawAsset(1, "tool_linux_amd64.tar.gz")>>

ReleasePool ==
    {RawRelease("v1.2.0", FALSE, FALSE, PlainAssets),
     RawRelease("v1.10.0", FALSE, FALSE, MultiAssets),
     RawRelease("tool-1.10.0+build5", FALSE, FALSE, MixedAssets),
     RawRelease("1.10.0-beta.1", FALSE, FALSE, PlainAssets),
     RawRelease("v1.10.0-rc.1", FALSE, TRUE, PlainAssets),
     RawRelease("v2.0.0", TRUE, FALSE, PlainAssets),
     RawRelease("nightly", FALSE, FALSE, PlainAssets),
     RawRelease("v3.0.0", FALSE, FALSE, ForeignAssets)}

ReleaseLists == UNION {[1..n -> ReleasePool] : n \in 0..MaxRels}

Platforms == {"linux", "windows"}

TargetVersions == {"", "v1.10.0", "v2.0.0"}

FilterSets ==
    {<<>>,
     <<Filter(TRUE, "tool-core", FALSE)>>,
     <<Filter(FALSE, "extra", FALSE), Filter(FALSE, ".tar.gz", TRUE)>>}

Validators == {NoValidator, <<".sha256">>}

PrefixAlphabet == {"v", "-", ".", "1"}

RECURSIVE StringsUpTo(_)
StringsUpTo(n) ==
    IF n = 0 THEN {""}
    ELSE LET shorter == StringsUpTo(n - 1)
         IN  shorter \cup {s \o c : s \in shorter, c \in PrefixAlphabet}

Prefixes == StringsUpTo(MaxPrefixLen)

BareVersions ==
    {"1.2.0", "1.10.0", "0.0.1-beta", "1.10.0-beta.1", "1.10.0+build5",
     "2.0.0-rc.1+build.5", "10.20.30"}

(***************************************************************************)
(* Updater.DetectVersion                                                   *)
(***************************************************************************)
NoResult == [err |-> "pending", cause |-> "", release |-> <<>>]

Failure(err, cause) == [err |-> err, cause |-> cause, release |-> <<>>]

NotParsed == [ok |-> FALSE, ver |-> ZeroVersion]

NoCall == [a |-> 0, v |-> ZeroVersion, err |-> "nil"]

Init ==
    /\ goos \in Platforms
    /\ repo \in ReleaseLists
    /\ targetVersion \in TargetVersions
    /\ filters \in FilterSets
    /\ validator \in Validators
    /\ pc = "fetch"
    /\ rels = <<>>
    /\ idx = 0
    /\ cur = NoCall
    /\ ver = ZeroVersion
    /\ asset = NilAsset
    /\ release = 0
    /\ result = NoResult
    /\ prefix = ""
    /\ bare = ""
    /\ parsed = NotParsed

\* lines 145-150: ListReleases answers 404
FetchNotFound ==
    /\ pc = "fetch"
    /\ pc' = "done"
    /\ result' = Failure("repository or release not found", "")
    /\ UNCHANGED <<goos, repo, targetVersion, filters, validator, rels, idx, cur,
                   ver, asset, release>>
    /\ UNCHANGED parseVars

\* lines 145-153: ListReleases fails otherwise
FetchFailed ==
    /\ pc = "fetch"
    /\ pc' = "done"
    /\ result' = Failure("failed to fetch releases", "")
    /\ UNCHANGED <<goos, repo, targetVersion, filters, validator, rels, idx, cur,
                   ver, asset, release>>
    /\ UNCHANGED parseVars

\* line 145, then findReleaseAndAsset is entered (lines 103-105)
FetchOk ==
    /\ pc = "fetch"
    /\ pc' = "select"
    /\ rels' = repo
    /\ idx' = 0
    /\ ver' = ZeroVersion
    /\ asset' = NilAsset
    /\ release' = 0
    /\ UNCHANGED <<goos, repo, targetVersion, filters, validator, cur, result>>
    /\ UNCHANGED parseVars

\* lines 110-124: one turn of the loop over rels; an error of
\* findAssetFromRelease ends findReleaseAndAsset (112-115) and DetectVersion (156-158)
Iterate ==
    /\ pc = "select"
    /\ idx < Len(rels)
    /\ cur' = findAssetFromRelease(rels[idx + 1], Suffixes(goos), targetVersion, filters)
    /\ idx' = idx + 1
    /\ IF cur'.err # "nil"
       THEN /\ pc' = "done"
            /\ result' = Failure("failed to find release and asset",
                                 "could not find asset from release")
            /\ release' = 0
            /\ asset' = NilAsset
            /\ ver' = ver
       ELSE /\ pc' = "select"
            /\ result' = result
            /\ IF Replaces(release, cur'.v, ver)
               THEN /\ ver' = cur'.v
                    /\ asset' = <<idx + 1, cur'.a>>
                    /\ release' = idx + 1
               ELSE UNCHANGED <<ver, asset, release>>
    /\ UNCHANGED <<goos, repo, targetVersion, filters, validator, rels>>
    /\ UNCHANGED parseVars

\* lines 126-130 and 155-158: the loop is over
Selected ==
    /\ pc = "select"
    /\ idx = Len(rels)
    /\ IF NoReleaseFound(release)
       THEN /\ pc' = "done"
            /\ result' = Failure("failed to find release and asset",
                                 "could not find any release")
            /\ ver' = ZeroVersion
       ELSE /\ pc' = "build"
            /\ UNCHANGED <<result, ver>>
    /\ UNCHANGED <<goos, repo, targetVersion, filters, validator, rels, idx, cur,
                   asset, release>>
    /\ UNCHANGED parseVars

\* lines 160-188: the Release is built and the validation asset looked up;
\* rel.Assets of a nil rel (line 78) is a nil pointer dereference
Build ==
    /\ pc = "build"
    /\ pc' = "done"
    /\ LET built == [Version |-> ver,
                     AssetURL |-> GetBrowserDownloadURL(rels, asset),
                     AssetByteSize |-> GetSize(rels, asset),
                     AssetID |-> GetID(rels, asset),
                     ValidationAssetID |-> -1,
                     URL |-> GetHTMLURL(rels, release),
                     Name |-> GetName(rels, release)]
           validationName == GetAssetName(rels, asset) \o validator[1]
           found == findValidationAsset(rels[release].Assets, validationName, 1)
       IN  IF validator = NoValidator
           THEN result' = [err |-> "nil", cause |-> "", release |-> <<built>>]
           ELSE IF release = 0
           THEN result' = Failure("panic", "nil pointer dereference")
           ELSE IF found = 0
           THEN result' = Failure("Failed finding validation file", "")
           ELSE result' = [err |-> "nil", cause |-> "",
                           release |-> <<[built EXCEPT !.ValidationAssetID =
                                              rels[release].Assets[found].ID]>>]
    /\ UNCHANGED <<goos, repo, targetVersion, filters, validator, rels, idx, cur,
                   ver, asset, release>>
    /\ UNCHANGED parseVars

Next == FetchNotFound \/ FetchFailed \/ FetchOk \/ Iterate \/ Selected \/ Build

Spec == Init /\ [][Next]_vars

(***************************************************************************)
(* The version parser alone, on a tag made of a prefix and a version.      *)
(***************************************************************************)
ParseInit ==
    /\ prefix \in Prefixes
    /\ bare \in BareVersions
    /\ parsed = NotParsed
    /\ pc = "parse"
    /\ goos = "linux"
    /\ repo = <<>>
    /\ targetVersion = ""
    /\ filters = <<>>
    /\ validator = NoValidator
    /\ rels = <<>>
    /\ idx = 0
    /\ cur = NoCall
    /\ ver = ZeroVersion
    /\ asset = NilAsset
    /\ release = 0
    /\ result = NoResult

\* findAssetFromRelease lines 30-45 on the tag prefix \o bare
ParseTag ==
    /\ pc = "parse"
    /\ pc' = "parsed"
    /\ parsed' = VersionParser(prefix \o bare)
    /\ UNCHANGED <<prefix, bare>>
    /\ UNCHANGED detectVars

ParseNext == ParseTag

ParseSpec == ParseInit /\ [][ParseNext]_vars

(***************************************************************************)
(* Vocabulary of the properties, stated on the inputs and not through the  *)
(* loops of the code.                                                      *)
(***************************************************************************)
FetchErrors == {"repository or release not found", "failed to fetch releases"}

\* findReleaseAndAsset has returned
SelectionOver == pc = "build" \/ (pc = "done" /\ result.err \notin FetchErrors)

\* findReleaseAndAsset has returned a release
SelectionSucceeded ==
    pc = "build" \/ (pc = "done" /\ result.err \in {"nil", "Failed finding validation file"})

Eligible(rel) ==
    IF targetVersion = "" THEN ~rel.Draft /\ ~rel.Prerelease
    ELSE rel.TagName = targetVersion

PassesFilters(name) ==
    filters = <<>> \/ \E k \in 1..Len(filters) : MatchString(filters[k], name)

EndsWithCandidateSuffix(name) ==
    LET candidates == Suffixes(goos)
    IN  \E k \in 1..Len(candidates) : HasSuffix(name, candidates[k])

PassingAssets(rel) ==
    {j \in 1..Len(rel.Assets) :
        PassesFilters(rel.Assets[j].Name) /\ EndsWithCandidateSuffix(rel.Assets[j].Name)}

VersionOf(rel) == VersionParser(rel.TagName).ver

\* the release yields a (matching asset, parseable version) pair
Qualifies(rel) ==
    Eligible(rel) /\ VersionParser(rel.TagName).ok /\ PassingAssets(rel) # {}

NoDigit(s) == \A i \in 1..Len(s) : Char(s, i) \notin numbers

(***************************************************************************)
(* C1: a release that fails asset matching or version parsing is skipped:  *)
(* whenever some release of the list qualifies, the selection succeeds,    *)
(* whatever the other releases are and wherever they stand.                *)
(***************************************************************************)
C1_FailingReleaseIsSkipped ==
    (SelectionOver /\ \E i \in 1..Len(rels) : Qualifies(rels[i]))
        => SelectionSucceeded

(***************************************************************************)
(* C2: with a target version, a list that holds a release of exactly that  *)
(* tag with a matching asset and a parseable version yields a release of   *)
(* that tag, whatever the other releases are.                              *)
(***************************************************************************)
C2_ExactTagIsSelected ==
    (/\ SelectionOver
     /\ targetVersion # ""
     /\ \E i \in 1..Len(rels) : rels[i].TagName = targetVersion /\ Qualifies(rels[i]))
        => (SelectionSucceeded /\ release # 0 /\ rels[release].TagName = targetVersion)

(***************************************************************************)
(* C3: without a target version the selected release is never a draft and  *)
(* never a pre-release, during the selection and in the returned Release.  *)
(***************************************************************************)
C3_LatestIsNeverDraftOrPrerelease ==
    /\ (targetVersion = "" /\ release # 0)
          => (~rels[release].Draft /\ ~rels[release].Prerelease)
    /\ (pc = "done" /\ result.err = "nil") => release # 0

C3_Witness ==
    /\ pc = "done"
    /\ targetVersion = ""
    /\ result.err = "nil"
    /\ Len(rels) >= 2
    /\ \E i \in 1..Len(rels) : i # release

(***************************************************************************)
(* C4: among the releases that yield a (valid asset, valid version) pair   *)
(* the one of the greatest version is returned, in any order of the list.  *)
(***************************************************************************)
C4_GreatestQualifyingVersion ==
    (SelectionOver /\ \E i \in 1..Len(rels) : Qualifies(rels[i]))
        => /\ SelectionSucceeded
           /\ release # 0
           /\ Qualifies(rels[release])
           /\ ver = VersionOf(rels[release])
           /\ \A i \in 1..Len(rels) :
                 Qualifies(rels[i]) => Compare(ver, VersionOf(rels[i])) >= 0

(***************************************************************************)
(* C5, as claimed: of qualifying releases of equal version the first one   *)
(* met is kept, so no release in front of the selected one has a version   *)
(* equal to the selected version.                                          *)
(***************************************************************************)
C5_FirstOfEqualVersionsIsKept ==
    (SelectionSucceeded /\ release # 0)
        => \A i \in 1..(release - 1) :
              Qualifies(rels[i]) => Compare(VersionOf(rels[i]), ver) # 0

(***************************************************************************)
(* C5, amended: of qualifying releases of equal version the last one met   *)
(* is kept: no release examined after the selected one has a version equal *)
(* to (or greater than) the selected version.                              *)
(***************************************************************************)
C5_LastOfEqualVersionsIsKept ==
    release # 0
        => \A i \in (release + 1)..idx :
              Qualifies(rels[i]) => Compare(VersionOf(rels[i]), ver) < 0

C5_Witness ==
    /\ pc = "done"
    /\ result.err = "nil"
    /\ \E i \in 1..(release - 1) :
          /\ Compare(VersionOf(rels[i]), ver) = 0
          /\ rels[i].TagName # rels[release].TagName

(***************************************************************************)
(* C6: with a validator the selected release must hold an asset named      *)
(* exactly <selected asset name><suffix>; without one DetectVersion fails  *)
(* and returns no Release, with one ValidationAssetID is the identifier of *)
(* that asset (the first of that name).  Without a validator               *)
(* ValidationAssetID is -1 and nothing more is required.                   *)
(***************************************************************************)
C6_ValidationAsset ==
    (pc = "done" /\ release # 0)
        => LET assets == rels[release].Assets
               wanted == assets[asset[2]].Name \o validator[1]
               companions == {j \in 1..Len(assets) : assets[j].Name = wanted}
           IN  IF validator = NoValidator
               THEN /\ result.err = "nil"
                    /\ Len(result.release) = 1
                    /\ result.release[1].ValidationAssetID = -1
               ELSE IF companions = {}
               THEN /\ result.err = "Failed finding validation file"
                    /\ result.release = <<>>
               ELSE /\ result.err = "nil"
                    /\ Len(result.release) = 1
                    /\ result.release[1].ValidationAssetID = assets[Min(companions)].ID

C6_Witness ==
    /\ pc = "done"
    /\ validator # NoValidator
    /\ result.err = "nil"
    /\ result.release[1].ValidationAssetID # -1
    /\ result.release[1].ValidationAssetID # result.release[1].AssetID

(***************************************************************************)
(* C7: with filters, the asset findAssetFromRelease accepts matches at     *)
(* least one filter and ends with a candidate suffix; an asset matching no *)
(* filter is never the one selected.  Without filters a release that is    *)
(* looked at and has an asset ending with a candidate suffix is accepted.  *)
(***************************************************************************)
C7_FiltersAreRespected ==
    /\ (idx >= 1 /\ cur.err = "nil")
          => LET name == rels[idx].Assets[cur.a].Name
             IN  /\ filters # <<>> => \E k \in 1..Len(filters) : MatchString(filters[k], name)
                 /\ EndsWithCandidateSuffix(name)
    /\ release # 0
          => LET name == rels[asset[1]].Assets[asset[2]].Name
             IN  filters # <<>> => \E k \in 1..Len(filters) : MatchString(filters[k], name)
    /\ (/\ idx >= 1
        /\ filters = <<>>
        /\ Eligible(rels[idx])
        /\ VersionParser(rels[idx].TagName).ok
        /\ \E j \in 1..Len(rels[idx].Assets) :
              EndsWithCandidateSuffix(rels[idx].Assets[j].Name))
          => cur.err = "nil"

C7_Witness ==
    /\ idx >= 1
    /\ goos = "linux"
    /\ filters = <<Filter(TRUE, "tool-core", FALSE)>>
    /\ cur.err = "nil"
    /\ rels[idx].Assets[1].Name = "tool-extra_linux_amd64"
    /\ rels[idx].Assets[cur.a].Name = "tool-core_linux_amd64"

(***************************************************************************)
(* C8: a resolution over an empty list, or over a list in which no release *)
(* qualifies, ends with an error and no Release; an error and a Release    *)
(* never come together, a returned Release is filled from a real release   *)
(* and asset, and no nil release or asset is dereferenced.                 *)
(***************************************************************************)
C8_NoReleaseWithoutSelection ==
    /\ pc = "build" => (release # 0 /\ asset # NilAsset)
    /\ pc = "done"
          => /\ result.err # "panic"
             /\ (result.err = "nil") <=> (result.release # <<>>)
    /\ (pc = "done" /\ SelectionOver /\ ~\E i \in 1..Len(rels) : Qualifies(rels[i]))
          => /\ result.err = "failed to find release and asset"
             /\ result.release = <<>>
    /\ (pc = "done" /\ SelectionOver /\ rels = <<>>)
          => result.cause = "could not find any release"
    /\ result.release # <<>>
          => /\ release # 0
             /\ result.release[1].AssetURL # ""
             /\ result.release[1].AssetID # 0

C8_Witness ==
    /\ pc = "done"
    /\ rels = <<>>
    /\ result.err = "failed to find release and asset"
    /\ result.cause = "could not find any release"
    /\ result.release = <<>>

(***************************************************************************)
(* C9, as claimed: whatever the prefix in front of a valid semantic        *)
(* version, the version parser yields the version of the bare text.        *)
(***************************************************************************)
C9_AnyPrefixIsDiscarded ==
    pc = "parsed" => (parsed.ok /\ parsed.ver = Make(bare).ver)

(***************************************************************************)
(* C9, amended: the prefix is discarded when the first match of            *)
(* digits.digits.digits in the tag begins where the version begins, which  *)
(* is the case of every prefix that holds no digit.                        *)
(***************************************************************************)
C9_DigitFreePrefixIsDiscarded ==
    pc = "parsed"
        => /\ NoDigit(prefix) => FindStringIndex(prefix \o bare) = Len(prefix)
           /\ FindStringIndex(prefix \o bare) = Len(prefix)
                 => (Make(bare).ok /\ parsed.ok /\ parsed.ver = Make(bare).ver)

C9_Witness ==
    /\ pc = "parsed"
    /\ Len(prefix) > 0
    /\ NoDigit(prefix)
    /\ parsed.ok
    /\ Len(parsed.ver.Pre) > 0
    /\ Len(parsed.ver.Build) > 0

(***************************************************************************)
(* C10: of several assets of a release that pass the filters and end with  *)
(* a candidate suffix the first in listing order is taken; the asset of    *)
(* the returned Release belongs to the selected release, and the version   *)
(* is the one parsed from that release's tag.                              *)
(***************************************************************************)
C10_FirstAssetOfSelectedRelease ==
    /\ (idx >= 1 /\ cur.err = "nil")
          => /\ cur.a \in PassingAssets(rels[idx])
             /\ \A j \in PassingAssets(rels[idx]) : cur.a <= j
             /\ cur.v = VersionOf(rels[idx])
    /\ release # 0
          => /\ asset[1] = release
             /\ asset[2] \in PassingAssets(rels[release])
             /\ \A j \in PassingAssets(rels[release]) : asset[2] <= j
             /\ ver = VersionOf(rels[release])
    /\ result.release # <<>>
          => /\ release # 0
             /\ result.release[1].Version = ver
             /\ result.release[1].AssetID = rels[release].Assets[asset[2]].ID
             /\ result.release[1].AssetURL = rels[release].Assets[asset[2]].BrowserDownloadURL
             /\ result.release[1].AssetByteSize = rels[release].Assets[asset[2]].Size
             /\ result.release[1].URL = rels[release].HTMLURL

C10_Witness ==
    /\ pc = "done"
    /\ result.err = "nil"
    /\ Cardinality(PassingAssets(rels[release])) >= 2
    /\ Len(rels) >= 2

====
